---- MODULE Spec2Model ----
(***************************************************************************)
(* Model of create_icon.py: the macOS app-icon generator of LichessApp.    *)
(*                                                                         *)
(* Two specifications share the module:                                    *)
(*   Spec          one run of main(): load the pawn, make the output       *)
(*                 directory, create / save / report each icon, write      *)
(*                 Contents.json, print "Done!".  Every file-system call   *)
(*                 either succeeds or raises, which ends the run.          *)
(*   GradientSpec  the pixel loop of create_rounded_gradient: one row y    *)
(*                 of one size, scanned over every x.                      *)
(*                                                                         *)
(* Text (file names, manifest fields) is a sequence of one-character       *)
(* strings, so that formatting an integer into a name is a computation.    *)
(* The float expressions int(size * 0.02), int(size * 0.18),               *)
(* int(size * 0.7) and int(235 - y / size * 45) are written with integer   *)
(* division; for the seven sizes of the program (powers of two) both give  *)
(* the same value, and sqrt(d) <= radius is d <= radius * radius for the   *)
(* integers d that occur.                                                  *)
(***************************************************************************)
EXTENDS Integers, Sequences, FiniteSets, TLC

VARIABLES
    pc,         \* position of main(): "load", "makedirs", "create", "save",
                \* "print", "manifest", "print_done", "done", "aborted"
    src,        \* /tmp/pawn.png as found on disk: NoFile or an image
    dirExists,  \* whether icon_dir exists on disk
    dirCreated, \* whether this run created icon_dir
    opens,      \* number of Image.open calls made
    pawn,       \* main's local pawn (NoImage before the load)
    idx,        \* position of the for loop in sizes (1-based)
    icon,       \* main's local icon (NoImage before the first create_icon)
    written,    \* PNG files saved by this run, in order of the saves
    manifest,   \* Contents.json as written by this run (NoManifest before)
    out,        \* lines printed to stdout
    gsize,      \* create_rounded_gradient: its argument size
    gy,         \* create_rounded_gradient: the row of the outer loop
    grow        \* create_rounded_gradient: the pixels of row gy after the
                \* inner loop (the empty function before it)

vars == <<pc, src, dirExists, dirCreated, opens, pawn, idx, icon, written,
          manifest, out, gsize, gy, grow>>

mainVars == <<pc, src, dirExists, dirCreated, opens, pawn, idx, icon, written,
              manifest, out>>

gradVars == <<gsize, gy, grow>>

\* Largest width and height of the source image the model tries.
MaxPawnDim == 2

NoFile == [kind |-> "nofile"]
NoImage == [kind |-> "noimage"]
NoManifest == [kind |-> "nomanifest"]

----------------------------------------------------------------------------
(* Text.                                                                   *)

DigitChars == <<"0", "1", "2", "3", "4", "5", "6", "7", "8", "9">>

\* str(n) of a natural number, as in an f-string's {size}.
RECURSIVE IntToStr(_)
IntToStr(n) ==
    IF n < 10 THEN <<DigitChars[n + 1]>>
    ELSE IntToStr(n \div 10) \o <<DigitChars[(n % 10) + 1]>>

\* The name with the f prefix of the string forgotten: the same literal text
\* for every size.
IconName_NoFormat(size) ==
    <<"i", "c", "o", "n", "_", "{", "s", "i", "z", "e", "}", "x",
      "{", "s", "i", "z", "e", "}", ".", "p", "n", "g">>

\* f"icon_{size}x{size}.png", the base name of the path icon.save is given.
IconName(size) ==
    <<"i", "c", "o", "n", "_">> \o IntToStr(size) \o <<"x">> \o IntToStr(size)
        \o <<".", "p", "n", "g">>

----------------------------------------------------------------------------
(* create_rounded_gradient.                                                *)

\* radius_ratio=0.18, in hundredths.
radius_ratio == 18

margin(size) == (size * 2) \div 100

radius(size) == (size * radius_ratio) \div 100

\* dist <= radius for dist = math.sqrt(dx**2 + dy**2).
WithinRadius(dx, dy, r) == dx * dx + dy * dy <= r * r

\* The chain with the right-hand arcs centred on size - margin - radius, one
\* pixel right of the mirror image of the left-hand centre.
in_rect_OffByOne(size, x, y) ==
    LET m == margin(size)
        r == radius(size)
        lo == m + r
        hi == size - m - r - 1
    IN  IF x < lo /\ y < lo THEN WithinRadius(x - m - r, y - m - r, r)
        ELSE IF x > hi /\ y < lo THEN WithinRadius(x - (hi + 1), y - m - r, r)
        ELSE IF x < lo /\ y > hi THEN WithinRadius(x - m - r, y - hi, r)
        ELSE IF x > hi /\ y > hi THEN WithinRadius(x - (hi + 1), y - hi, r)
        ELSE IF x < m \/ x >= size - m \/ y < m \/ y >= size - m THEN FALSE
        ELSE TRUE

\* The value of in_rect after the if / elif chain for pixel (x, y).
in_rect(size, x, y) ==
    LET m == margin(size)
        r == radius(size)
        lo == m + r
        hi == size - m - r - 1
    IN  IF x < lo /\ y < lo THEN WithinRadius(x - m - r, y - m - r, r)
        ELSE IF x > hi /\ y < lo THEN WithinRadius(x - hi, y - m - r, r)
        ELSE IF x < lo /\ y > hi THEN WithinRadius(x - m - r, y - hi, r)
        ELSE IF x > hi /\ y > hi THEN WithinRadius(x - hi, y - hi, r)
        ELSE IF x < m \/ x >= size - m \/ y < m \/ y >= size - m THEN FALSE
        ELSE TRUE

\* (r, g, b) of row y: ratio = y / size, r = int(235 - ratio * 45), ...
RowColor(size, y) ==
    <<(235 * size - 45 * y) \div size,
      (145 * size - 35 * y) \div size,
      (65 * size - 25 * y) \div size>>

Transparent == <<0, 0, 0, 0>>

\* Pixel (x, y) of the returned image: Image.new's fill unless putpixel ran.
GradientPixel(size, x, y) ==
    IF in_rect(size, x, y) THEN RowColor(size, y) \o <<255>> ELSE Transparent

\* One pass of the inner loop: row y of the image.
GradientRow(size, y) == [x \in 0 .. size - 1 |-> GradientPixel(size, x, y)]

\* The image create_rounded_gradient returns, by its dimensions.
create_rounded_gradient(size) ==
    [kind |-> "image", mode |-> "RGBA", width |-> size, height |-> size]

----------------------------------------------------------------------------
(* create_icon.                                                            *)

\* The pawn resized to 90% of the icon instead of 70%.
pawn_size_TooLarge(size) == (size * 9) \div 10

pawn_size(size) == (size * 7) \div 10

\* The pawn's top-left corner, not its centre, put at the icon's centre.
offset_FromCentre(size) == size \div 2

offset(size) == (size - pawn_size(size)) \div 2

\* pawn_img.resize((pawn_size, pawn_size), LANCZOS): a new image of the
\* requested dimensions, whatever the dimensions of pawn_img.
Resize(img, w, h) ==
    [kind |-> "image", mode |-> img.mode, width |-> w, height |-> h]

\* img.paste(im, (x, y), mask): img keeps its dimensions; the box records
\* where im was put.
Paste(img, im, x, y) ==
    [kind |-> "image", mode |-> img.mode, width |-> img.width,
     height |-> img.height,
     box |-> [left |-> x, top |-> y, width |-> im.width, height |-> im.height]]

\* create_icon returning the resized pawn instead of the composed image.
create_icon_ReturnsPawn(size, pawn_img) ==
    Resize(pawn_img, pawn_size(size), pawn_size(size))
        @@ [box |-> [left |-> offset(size), top |-> offset(size),
                     width |-> pawn_size(size), height |-> pawn_size(size)]]

create_icon(size, pawn_img) ==
    LET img == create_rounded_gradient(size)
        pawn_resized == Resize(pawn_img, pawn_size(size), pawn_size(size))
    IN  Paste(img, pawn_resized, offset(size), offset(size))

----------------------------------------------------------------------------
(* main.                                                                   *)

\* The size list without 64, which only the 32x32@2x slot uses.
sizes_No64 == <<16, 32, 128, 256, 512, 1024>>

sizes == <<16, 32, 64, 128, 256, 512, 1024>>

\* An entry written without its idiom.
ManifestEntry_NoIdiom(filename, scale, size) ==
    [filename |-> filename, scale |-> scale, size |-> size]

ManifestEntry(filename, scale, size) ==
    [filename |-> filename, idiom |-> <<"m", "a", "c">>, scale |-> scale,
     size |-> size]

Scale1x == <<"1", "x">>
Scale2x == <<"2", "x">>

\* The list under "images" of the contents literal.
images ==
    <<
        ManifestEntry(<<"i","c","o","n","_","1","6","x","1","6",".","p","n","g">>,
                      Scale1x, <<"1","6","x","1","6">>),
        ManifestEntry(<<"i","c","o","n","_","3","2","x","3","2",".","p","n","g">>,
                      Scale2x, <<"1","6","x","1","6">>),
        ManifestEntry(<<"i","c","o","n","_","3","2","x","3","2",".","p","n","g">>,
                      Scale1x, <<"3","2","x","3","2">>),
        ManifestEntry(<<"i","c","o","n","_","6","4","x","6","4",".","p","n","g">>,
                      Scale2x, <<"3","2","x","3","2">>),
        ManifestEntry(<<"i","c","o","n","_","1","2","8","x","1","2","8",".","p","n","g">>,
                      Scale1x, <<"1","2","8","x","1","2","8">>),
        ManifestEntry(<<"i","c","o","n","_","2","5","6","x","2","5","6",".","p","n","g">>,
                      Scale2x, <<"1","2","8","x","1","2","8">>),
        ManifestEntry(<<"i","c","o","n","_","2","5","6","x","2","5","6",".","p","n","g">>,
                      Scale1x, <<"2","5","6","x","2","5","6">>),
        ManifestEntry(<<"i","c","o","n","_","5","1","2","x","5","1","2",".","p","n","g">>,
                      Scale2x, <<"2","5","6","x","2","5","6">>),
        ManifestEntry(<<"i","c","o","n","_","5","1","2","x","5","1","2",".","p","n","g">>,
                      Scale1x, <<"5","1","2","x","5","1","2">>),
        ManifestEntry(<<"i","c","o","n","_","1","0","2","4","x","1","0","2","4",".","p","n","g">>,
                      Scale2x, <<"5","1","2","x","5","1","2">>)
    >>

\* The 32x32@2x slot pointing at the 1x file.
contents_WrongFile ==
    [images |-> [images EXCEPT ![4].filename = images[3].filename],
     info |-> [author |-> "xcode", version |-> 1]]

contents == [images |-> images, info |-> [author |-> "xcode", version |-> 1]]

SourceImages ==
    [kind : {"image"}, mode : {"L", "RGBA"},
     width : 1 .. MaxPawnDim, height : 1 .. MaxPawnDim]

GradIdle == gsize = 0 /\ gy = 0 /\ grow = << >>

Init ==
    /\ pc = "load"
    /\ src \in {NoFile} \cup SourceImages
    /\ dirExists \in BOOLEAN
    /\ dirCreated = FALSE
    /\ opens = 0
    /\ pawn = NoImage
    /\ idx = 1
    /\ icon = NoImage
    /\ written = << >>
    /\ manifest = NoManifest
    /\ out = << >>
    /\ GradIdle

\* An uncaught exception: the interpreter prints the traceback and exits.
Abort == pc' = "aborted"

\* The load with its error swallowed: main goes on with a blank 1x1 pawn.
Load_Swallow ==
    /\ pc = "load"
    /\ opens' = opens + 1
    /\ pawn' = IF src = NoFile
               THEN [kind |-> "image", mode |-> "RGBA", width |-> 1, height |-> 1]
               ELSE [kind |-> "image", mode |-> "RGBA",
                     width |-> src.width, height |-> src.height]
    /\ pc' = "makedirs"
    /\ UNCHANGED <<src, dirExists, dirCreated, idx, icon, written, manifest,
                   out, gradVars>>

\* pawn = Image.open('/tmp/pawn.png').convert('RGBA')
Load ==
    /\ pc = "load"
    /\ opens' = opens + 1
    /\ IF src = NoFile
       THEN Abort /\ pawn' = pawn
       ELSE /\ pawn' = [kind |-> "image", mode |-> "RGBA",
                        width |-> src.width, height |-> src.height]
            /\ pc' = "makedirs"
    /\ UNCHANGED <<src, dirExists, dirCreated, idx, icon, written, manifest,
                   out, gradVars>>

\* os.makedirs(icon_dir, exist_ok=True), then the for loop takes sizes[0].
MakeDirs ==
    /\ pc = "makedirs"
    /\ \E ok \in BOOLEAN :
         IF ok
         THEN /\ dirExists' = TRUE
              /\ dirCreated' = ~dirExists
              /\ idx' = 1
              /\ pc' = IF Len(sizes) >= 1 THEN "create" ELSE "manifest"
         ELSE Abort /\ UNCHANGED <<dirExists, dirCreated, idx>>
    /\ UNCHANGED <<src, opens, pawn, icon, written, manifest, out, gradVars>>

\* icon = create_icon(size, pawn)
CreateIcon ==
    /\ pc = "create"
    /\ icon' = create_icon(sizes[idx], pawn)
    /\ pc' = "save"
    /\ UNCHANGED <<src, dirExists, dirCreated, opens, pawn, idx, written,
                   manifest, out, gradVars>>

\* The file icon.save leaves when it succeeds.
SavedFile(size, img) ==
    [name |-> IconName(size), width |-> img.width, height |-> img.height]

\* The save with its error swallowed: the loop goes on to the next size.
SaveIcon_Continue ==
    /\ pc = "save"
    /\ \E ok \in BOOLEAN :
         /\ written' = IF ok THEN Append(written, SavedFile(sizes[idx], icon))
                       ELSE written
         /\ pc' = "print"
    /\ UNCHANGED <<src, dirExists, dirCreated, opens, pawn, idx, icon,
                   manifest, out, gradVars>>

\* icon.save(f"{icon_dir}/icon_{size}x{size}.png").  written holds the
\* files saved completely; a save that raises adds none.
SaveIcon ==
    /\ pc = "save"
    /\ \E ok \in BOOLEAN :
         IF ok
         THEN /\ written' = Append(written, SavedFile(sizes[idx], icon))
              /\ pc' = "print"
         ELSE Abort /\ written' = written
    /\ UNCHANGED <<src, dirExists, dirCreated, opens, pawn, idx, icon,
                   manifest, out, gradVars>>

\* print(f"Created {size}x{size}"), then the for loop takes the next size.
PrintCreated ==
    /\ pc = "print"
    /\ out' = Append(out, <<"C", "r", "e", "a", "t", "e", "d", " ">>
                            \o IntToStr(sizes[idx]) \o <<"x">>
                            \o IntToStr(sizes[idx]))
    /\ IF idx < Len(sizes)
       THEN idx' = idx + 1 /\ pc' = "create"
       ELSE idx' = idx /\ pc' = "manifest"
    /\ UNCHANGED <<src, dirExists, dirCreated, opens, pawn, icon, written,
                   manifest, gradVars>>

\* with open(f"{icon_dir}/Contents.json", 'w') as f: json.dump(contents, f)
WriteManifest ==
    /\ pc = "manifest"
    /\ \E ok \in BOOLEAN :
         IF ok
         THEN manifest' = contents /\ pc' = "print_done"
         ELSE Abort /\ manifest' = manifest
    /\ UNCHANGED <<src, dirExists, dirCreated, opens, pawn, idx, icon,
                   written, out, gradVars>>

DoneLine == <<"D", "o", "n", "e", "!">>

\* print("Done!")
PrintDone ==
    /\ pc = "print_done"
    /\ out' = Append(out, DoneLine)
    /\ pc' = "done"
    /\ UNCHANGED <<src, dirExists, dirCreated, opens, pawn, idx, icon,
                   written, manifest, gradVars>>

Next ==
    \/ Load
    \/ MakeDirs
    \/ CreateIcon
    \/ SaveIcon
    \/ PrintCreated
    \/ WriteManifest
    \/ PrintDone

Spec == Init /\ [][Next]_vars

----------------------------------------------------------------------------
(* The pixel loop of create_rounded_gradient, one row at a time.           *)

SizeSet == {sizes[k] : k \in 1 .. Len(sizes)}

\* main is not running while a row is scanned: its variables are parked.
MainIdle ==
    /\ pc = "create"
    /\ src = NoFile
    /\ dirExists = TRUE
    /\ dirCreated = FALSE
    /\ opens = 0
    /\ pawn = NoImage
    /\ idx = 1
    /\ icon = NoImage
    /\ written = << >>
    /\ manifest = NoManifest
    /\ out = << >>

GradientInit ==
    /\ MainIdle
    /\ gsize \in SizeSet
    /\ gy \in 0 .. gsize - 1
    /\ grow = << >>

\* for x in range(size): ... for the row y = gy of size = gsize.
ScanRow ==
    /\ grow = << >>
    /\ gsize > 0
    /\ grow' = GradientRow(gsize, gy)
    /\ UNCHANGED <<gsize, gy, mainVars>>

GradientNext == ScanRow

GradientSpec == GradientInit /\ [][GradientNext]_vars

----------------------------------------------------------------------------
(* Reading text back: the inverse of the formatting, used by the           *)
(* properties to interpret file names and manifest fields.                 *)

Range(s) == {s[k] : k \in DOMAIN s}

IsNumeral(s) ==
    /\ Len(s) > 0
    /\ \A k \in 1 .. Len(s) : \E d \in 0 .. 9 : DigitChars[d + 1] = s[k]

DigitVal(c) == CHOOSE d \in 0 .. 9 : DigitChars[d + 1] = c

RECURSIVE StrToInt(_)
StrToInt(s) ==
    IF Len(s) = 0 THEN 0
    ELSE StrToInt(SubSeq(s, 1, Len(s) - 1)) * 10 + DigitVal(s[Len(s)])

Malformed == <<-1, -1>>

\* <<A, B>> of the text "AxB", Malformed when the text has another shape.
PairOf(s) ==
    IF \E k \in 1 .. Len(s) : s[k] = "x"
    THEN LET k == CHOOSE j \in 1 .. Len(s) : s[j] = "x"
             a == SubSeq(s, 1, k - 1)
             b == SubSeq(s, k + 1, Len(s))
         IN  IF IsNumeral(a) /\ IsNumeral(b)
             THEN <<StrToInt(a), StrToInt(b)>>
             ELSE Malformed
    ELSE Malformed

\* <<A, B>> of the file name "icon_AxB.png".
PixelsOfName(name) ==
    IF /\ Len(name) > 9
       /\ SubSeq(name, 1, 5) = <<"i", "c", "o", "n", "_">>
       /\ SubSeq(name, Len(name) - 3, Len(name)) = <<".", "p", "n", "g">>
    THEN PairOf(SubSeq(name, 6, Len(name) - 4))
    ELSE Malformed

\* k of the scale "kx", -1 when the text has another shape.
ScaleFactor(scale) ==
    IF /\ Len(scale) > 1
       /\ scale[Len(scale)] = "x"
       /\ IsNumeral(SubSeq(scale, 1, Len(scale) - 1))
    THEN StrToInt(SubSeq(scale, 1, Len(scale) - 1))
    ELSE -1

\* The names of the PNG files this run has left in icon_dir.
FilesOnDisk == {written[k].name : k \in 1 .. Len(written)}

ManifestWritten == manifest # NoManifest

Succeeded == pc = "done"

\* The number of "Created NxN" lines printed so far.
CreatedLines ==
    Cardinality({k \in 1 .. Len(out) :
                    /\ Len(out[k]) > 7
                    /\ SubSeq(out[k], 1, 7) = <<"C", "r", "e", "a", "t", "e", "d">>})

----------------------------------------------------------------------------
(* Properties of a run of main (Spec).                                     *)

\* C1: the icon create_icon returns for size N is N x N pixels, and every
\* PNG written has the pixel dimensions its name icon_NxN.png states, N being
\* the size of the list at that position.
C1_IconIsNbyN ==
    /\ pc = "save" => icon.width = sizes[idx] /\ icon.height = sizes[idx]
    /\ \A k \in 1 .. Len(written) :
          /\ PixelsOfName(written[k].name) = <<written[k].width, written[k].height>>
          /\ written[k].width = written[k].height
          /\ written[k].width \in SizeSet

C1_Witness ==
    /\ Succeeded
    /\ \A n \in SizeSet : \E k \in 1 .. Len(written) :
          written[k].width = n /\ written[k].height = n

\* C2: at every point of a run the number of PNG files on disk equals the
\* number of sizes processed (those reported by a "Created" line, plus the
\* one saved and about to be reported), and a run that reaches "Done!" has
\* left exactly 7 files, one per size, under 7 distinct names.
C2_FileCountIsSizeCount ==
    /\ Cardinality(FilesOnDisk) = CreatedLines + (IF pc = "print" THEN 1 ELSE 0)
    /\ Cardinality(FilesOnDisk) = Len(written)
    /\ pc \in {"create", "save"} => Len(written) = idx - 1
    /\ pc = "print" => Len(written) = idx
    /\ Succeeded => /\ Cardinality(FilesOnDisk) = 7
                    /\ Len(written) = Len(sizes)
                    /\ \A n \in SizeSet : \E f \in FilesOnDisk :
                          PixelsOfName(f) = <<n, n>>

C2_Witness == Succeeded /\ Cardinality(FilesOnDisk) = 7 /\ CreatedLines = 7

\* C3: the images list of a written Contents.json has exactly 10 entries,
\* whatever the source image, each with exactly the fields filename, idiom,
\* scale and size, and with idiom "mac".
C3_ManifestHasTenEntries ==
    ManifestWritten =>
        /\ Len(manifest.images) = 10
        /\ \A k \in 1 .. Len(manifest.images) :
              /\ DOMAIN manifest.images[k] = {"filename", "idiom", "scale", "size"}
              /\ manifest.images[k].idiom = <<"m", "a", "c">>

C3_Witness ==
    /\ Succeeded
    /\ ManifestWritten
    /\ src # NoFile
    /\ src.width # src.height

\* C4: once Contents.json is written, the file names its entries reference
\* are exactly the PNG files the loop has written: no entry names a file that
\* was not generated and no generated file is left unreferenced.
C4_ManifestListsGeneratedFiles ==
    ManifestWritten =>
        {manifest.images[k].filename : k \in 1 .. Len(manifest.images)}
            = FilesOnDisk

C4_Witness ==
    /\ Succeeded
    /\ ManifestWritten
    /\ \E k \in 1 .. Len(manifest.images) :
          /\ PixelsOfName(manifest.images[k].filename) = <<64, 64>>
          /\ manifest.images[k].filename \in FilesOnDisk

\* C5: the icon for size N has the pawn, of side floor(0.7 N), pasted at the
\* same offset on both axes; the offset is floor((N - side) / 2), so the gap
\* after the pawn exceeds the gap before it by at most one pixel and the
\* offset is less than one pixel from (N - side) / 2.
C5_PawnCentred ==
    pc = "save" =>
        LET N == sizes[idx]
            b == icon.box
            before == b.left
            after == N - b.width - b.left
        IN  /\ b.left = b.top
            /\ b.width = b.height
            /\ 10 * b.width <= 7 * N /\ 7 * N < 10 * (b.width + 1)
            /\ 2 * b.left <= N - b.width /\ N - b.width < 2 * b.left + 2
            /\ after - before \in {0, 1}

C5_Witness ==
    /\ pc = "save"
    /\ sizes[idx] = 16
    /\ icon.box.left = 2
    /\ icon.box.width = 11
    /\ 16 - icon.box.width - icon.box.left = 3

\* C6: when /tmp/pawn.png cannot be loaded, the run stops at the load (one
\* attempt) and never prints "Done!"; it creates no directory, writes no PNG
\* and writes no Contents.json.
C6_MissingSourceAborts ==
    /\ opens <= 1
    /\ src = NoFile =>
          /\ pc \in {"load", "aborted"}
          /\ opens = 1 => pc = "aborted"
          /\ ~dirCreated
          /\ written = << >>
          /\ manifest = NoManifest
          /\ DoneLine \notin Range(out)

C6_Witness ==
    /\ src = NoFile
    /\ pc = "aborted"
    /\ opens = 1
    /\ ~dirExists

C7_Order ==
    /\ Len(written) <= Len(sizes)
    /\ \A k \in 1 .. Len(written) :
          k <= Len(sizes) /\ PixelsOfName(written[k].name) = <<sizes[k], sizes[k]>>
    /\ \A j, k \in 1 .. Len(written) :
          written[j].name = written[k].name => j = k
    /\ ManifestWritten => Len(written) = 7
    /\ DoneLine \in Range(out) => ManifestWritten

C7_Step ==
    /\ pc = "aborted" =>
          /\ written' = written
          /\ manifest' = manifest
          /\ out' = out
          /\ pc' = "aborted"
    /\ written' # written =>
          /\ Len(written') = Len(written) + 1
          /\ SubSeq(written', 1, Len(written)) = written
          /\ manifest = NoManifest /\ manifest' = NoManifest
    /\ manifest' # manifest => Len(written) = 7 /\ DoneLine \notin Range(out)

\* C7: the PNGs are written in the order of the size list, each once;
\* Contents.json is written only after all 7, and "Done!" only after
\* Contents.json.  In every state the files written are a prefix of the list
\* and the manifest exists only with all 7; once a call has failed, nothing
\* more is written.
C7_SequentialOutputs == [] C7_Order /\ [][C7_Step]_vars

C7_Witness ==
    /\ pc = "aborted"
    /\ Len(written) = 3
    /\ PixelsOfName(written[3].name) = <<64, 64>>
    /\ manifest = NoManifest

\* C9: each entry of the written manifest names a file whose pixel size P
\* is its logical size L times its scale (1 or 2), P is a size of the list,
\* and no two entries have the same size and scale.
C9_ManifestDimensions ==
    ManifestWritten =>
        /\ \A k \in 1 .. Len(manifest.images) :
              LET e == manifest.images[k]
                  P == PixelsOfName(e.filename)
                  L == PairOf(e.size)
                  s == ScaleFactor(e.scale)
              IN  /\ P # Malformed /\ L # Malformed
                  /\ P[1] = P[2] /\ L[1] = L[2]
                  /\ s \in {1, 2}
                  /\ P[1] = L[1] * s
                  /\ P[1] \in SizeSet
        /\ \A j, k \in 1 .. Len(manifest.images) :
              (/\ manifest.images[j].size = manifest.images[k].size
               /\ manifest.images[j].scale = manifest.images[k].scale) => j = k

C9_Witness ==
    /\ ManifestWritten
    /\ \E k \in 1 .. Len(manifest.images) :
          /\ PixelsOfName(manifest.images[k].filename) = <<1024, 1024>>
          /\ PairOf(manifest.images[k].size) = <<512, 512>>
          /\ ScaleFactor(manifest.images[k].scale) = 2

----------------------------------------------------------------------------
(* Properties of the background's pixels (GradientSpec).                   *)

RowScanned == grow # << >>

Alpha(pixel) == pixel[4]

\* The box create_icon pastes the pawn into, for size N.
PasteBox(N) ==
    create_icon(N, [kind |-> "image", mode |-> "RGBA", width |-> 1, height |-> 1]).box

\* C8: the box the pawn is pasted into lies inside the icon, and every
\* pixel of the background inside that box is opaque (alpha 255): the pawn
\* never reaches the transparent margin or the cut-off corners.
C8_PawnOnOpaqueBackground ==
    RowScanned =>
        LET b == PasteBox(gsize)
            cols == b.left .. b.left + b.width - 1
            rows == b.top .. b.top + b.height - 1
        IN  /\ b.width >= 1 /\ b.height >= 1
            /\ 0 <= b.left /\ b.left + b.width - 1 <= gsize - 1
            /\ 0 <= b.top /\ b.top + b.height - 1 <= gsize - 1
            /\ gy \in rows => \A x \in cols : Alpha(grow[x]) = 255

C8_Witness ==
    /\ RowScanned
    /\ gsize = 1024
    /\ gy = PasteBox(1024).top
    /\ gy < margin(1024) + radius(1024)
    /\ Alpha(grow[PasteBox(1024).left]) = 255
    /\ Alpha(grow[margin(1024)]) = 0

\* C10: the mask is symmetric: a pixel is opaque exactly when its
\* horizontal mirror, its vertical mirror and its transpose are; every pixel
\* in the margin band is (0, 0, 0, 0) and every other pixel is either
\* (0, 0, 0, 0) or has alpha 255.
C10_MaskSymmetric ==
    RowScanned =>
        \A x \in 0 .. gsize - 1 :
            LET opaque == Alpha(grow[x]) = 255
                m == margin(gsize)
            IN  /\ opaque \/ grow[x] = Transparent
                /\ opaque = (Alpha(grow[gsize - 1 - x]) = 255)
                /\ opaque = (Alpha(GradientPixel(gsize, x, gsize - 1 - gy)) = 255)
                /\ opaque = (Alpha(GradientPixel(gsize, gy, x)) = 255)
                /\ (x < m \/ x >= gsize - m \/ gy < m \/ gy >= gsize - m)
                      => grow[x] = Transparent

C10_Witness ==
    /\ RowScanned
    /\ gsize = 1024
    /\ gy = 30
    /\ Alpha(grow[150]) = 255
    /\ Alpha(grow[1023 - 150]) = 255
    /\ Alpha(grow[100]) = 0
    /\ grow[5] = Transparent

====
